---- MODULE Spec2Model ----
(***************************************************************************)
(* Model of the multi-agent translation workflow:                          *)
(*   workflow.py  TranslationWorkflow (_get_initial_translation,           *)
(*                translate, batch_translate)                              *)
(*   agents.py    GeminiLLM.call                                           *)
(*                                                                         *)
(* Text is a sequence of tokens.  The three literal markers of the         *)
(* quality-assessment format, the blank and the newline are tokens of      *)
(* their own, every other token is a piece of text without whitespace      *)
(* at its ends and without any part of a marker.                           *)
(***************************************************************************)
EXTENDS Naturals, Sequences, FiniteSets

VARIABLES
    pc,                  \* position of the running translate call
    text,                \* translate argument
    source_lang,         \* translate argument
    target_lang,         \* translate argument
    tokenizer_src_lang,  \* self.tokenizer.src_lang
    forced_bos,          \* inputs["forced_bos_token_id"] of the last draft
    warned,              \* the fallback warning was printed by the last draft
    initial_translation,
    task_output,         \* output field of the three Task objects
    draft_error,         \* << str(e) >> of the exception caught at line 82
    crew_error,          \* << str(e) >> of the exception caught at line 189
    context_analysis,
    refined_translation,
    quality_assessment,
    accuracy_score,
    final_recommendation,
    result,              \* the TranslationResult returned by translate
    batch_pc,            \* position of the running batch_translate call
    batch_texts,         \* batch_translate argument
    batch_i,             \* texts the loop of batch_translate has taken
    results,             \* batch_translate's local list
    prompt,              \* GeminiLLM.call argument
    content,             \* the text call handed to generate_content
    call_pc,             \* position of the GeminiLLM.call invocation
    service,             \* what the generation service did with the request
    call_ret,            \* value returned by GeminiLLM.call
    requests             \* generate_content requests issued by the invocation

vars == <<pc, text, source_lang, target_lang, tokenizer_src_lang, forced_bos,
          warned, initial_translation, task_output, draft_error, crew_error,
          context_analysis, refined_translation, quality_assessment,
          accuracy_score, final_recommendation, result, batch_pc, batch_texts,
          batch_i, results, prompt, content, call_pc, service, call_ret,
          requests>>

workflowVars == <<pc, text, source_lang, target_lang, tokenizer_src_lang,
                  forced_bos, warned, initial_translation, task_output,
                  draft_error, crew_error, context_analysis,
                  refined_translation, quality_assessment, accuracy_score,
                  final_recommendation, result, batch_pc, batch_texts, batch_i,
                  results>>

callVars == <<prompt, content, call_pc, service, call_ret, requests>>

----------------------------------------------------------------------------
(* Bounds *)

MaxLen == 5       \* longest quality-assessment text explored by SpecParse
MaxBatch == 2     \* longest batch
MaxMsgs == 2      \* longest message list handed to GeminiLLM.call

----------------------------------------------------------------------------
(* Text *)

SCORES == "SCORES:"
ASSESSMENT == "ASSESSMENT:"
RECOMMENDATION == "RECOMMENDATION:"
SP == " "
NL == "\n"

Whitespace == {SP, NL}

Empty == << >>

SeqsUpTo(S, n) == UNION {[1..k -> S] : k \in 0..n}

\* marker in text
Contains(s, m) == \E i \in 1..Len(s) : s[i] = m

FirstIndex(s, m) == CHOOSE i \in 1..Len(s) : s[i] = m /\ \A j \in 1..(i-1) : s[j] # m

\* str.split(m): the pieces of s between the occurrences of m
RECURSIVE Split(_, _)
Split(s, m) ==
    IF ~Contains(s, m) THEN <<s>>
    ELSE LET i == FirstIndex(s, m)
         IN  <<SubSeq(s, 1, i-1)>> \o Split(SubSeq(s, i+1, Len(s)), m)

\* str.lstrip(), str.rstrip(), str.strip()
RECURSIVE LStrip(_)
LStrip(s) == IF s # Empty /\ Head(s) \in Whitespace THEN LStrip(Tail(s)) ELSE s

RECURSIVE RStrip(_)
RStrip(s) ==
    IF s # Empty /\ s[Len(s)] \in Whitespace THEN RStrip(SubSeq(s, 1, Len(s)-1)) ELSE s

Strip(s) == RStrip(LStrip(s))

----------------------------------------------------------------------------
(* workflow.py 196-211: scores and recommendation out of the assessment *)

NA == <<"N/A">>

\* accuracy_score = "N/A", replaced when "SCORES:" is in quality_assessment
ExtractAccuracyScore(qa) ==
    IF Contains(qa, SCORES)
    THEN LET scores_section == Split(Split(qa, SCORES)[2], ASSESSMENT)[1]
         IN  Strip(scores_section)
    ELSE NA

\* final_recommendation = refined_translation, replaced when
\* "RECOMMENDATION:" is in quality_assessment
ExtractFinalRecommendation(qa, refined) ==
    IF Contains(qa, RECOMMENDATION)
    THEN Strip(Split(qa, RECOMMENDATION)[2])
    ELSE refined

----------------------------------------------------------------------------
(* agents.py 27-65: GeminiLLM.call *)

APOLOGY == <<"I apologize, but I encountered an error while processing your request. Please try again with a simpler prompt.">>
NO_RESPONSE == <<"No response generated">>

\* str(x) of a value that is neither text nor handled by field
Repr == <<"repr">>

\* A value stored under a key of a message: absent, a string, or some
\* other object (on which  + "\n"  raises TypeError).
NoField == [has |-> FALSE, isstr |-> FALSE, val |-> Empty]
StrField(t) == [has |-> TRUE, isstr |-> TRUE, val |-> t]
ObjField == [has |-> TRUE, isstr |-> FALSE, val |-> Repr]

\* One element of a message list: a dict (with content / text keys), a
\* plain string, or any other object.
DictMsg(c, t) == [kind |-> "dict", content |-> c, textf |-> t, str |-> Empty]
StrMsg(t) == [kind |-> "str", content |-> NoField, textf |-> NoField, str |-> t]
OtherMsg == [kind |-> "other", content |-> NoField, textf |-> NoField, str |-> Empty]

\* The prompt argument: str, list, dict, or anything else.
StrPrompt(t) == [kind |-> "str", str |-> t, msgs |-> << >>, msg |-> OtherMsg]
ListPrompt(ms) == [kind |-> "list", str |-> Empty, msgs |-> ms, msg |-> OtherMsg]
DictPrompt(m) == [kind |-> "dict", str |-> Empty, msgs |-> << >>, msg |-> m]
OtherPrompt == [kind |-> "other", str |-> Empty, msgs |-> << >>, msg |-> OtherMsg]

\* Outcome of normalising the prompt: the content sent on, or a raise.
Content(c) == [raised |-> FALSE, content |-> c]
Raised == [raised |-> TRUE, content |-> Empty]

\* lines 37-44: what one list element appends to content
MsgPiece(m) ==
    IF m.kind = "dict"
    THEN IF m.content.has
         THEN IF m.content.isstr THEN Content(m.content.val \o <<NL>>) ELSE Raised
         ELSE IF m.textf.has
              THEN IF m.textf.isstr THEN Content(m.textf.val \o <<NL>>) ELSE Raised
              ELSE Content(Empty)
    ELSE IF m.kind = "str" THEN Content(m.str \o <<NL>>)
    ELSE Content(Empty)

\* lines 36-44: the loop over the list
RECURSIVE JoinMsgs(_)
JoinMsgs(ms) ==
    IF ms = << >> THEN Content(Empty)
    ELSE LET first == MsgPiece(Head(ms))
             rest == JoinMsgs(Tail(ms))
         IN  IF first.raised \/ rest.raised THEN Raised
             ELSE Content(first.content \o rest.content)

\* lines 31-56: the content handed to generate_content
Normalize(p) ==
    IF p.kind = "str" THEN Content(p.str)
    ELSE IF p.kind = "list"
         THEN LET joined == JoinMsgs(p.msgs)
              IN  IF joined.raised THEN Raised ELSE Content(Strip(joined.content))
    ELSE IF p.kind = "dict"
         THEN IF p.msg.content.has THEN Content(p.msg.content.val)
              ELSE IF p.msg.textf.has THEN Content(p.msg.textf.val)
              ELSE Content(Repr)
    ELSE Content(Repr)

\* What the generation service does with one request: it answers with a
\* text (possibly empty), the transport raises, or reading response.text
\* raises.
Answer(t) == [kind |-> "answer", text |-> t]
TransportError == [kind |-> "transport_error", text |-> Empty]
TextError == [kind |-> "text_error", text |-> Empty]
NoService == [kind |-> "none", text |-> Empty]

\* the try block sending the request a second time when the service fails
CallBody_Retry(p, svc) ==
    LET n == Normalize(p)
    IN  IF n.raised
        THEN [ret |-> Empty, raised |-> TRUE, requests |-> 0,
              content |-> Empty]
        ELSE IF svc.kind = "answer"
             THEN [ret |-> IF svc.text # Empty THEN svc.text ELSE NO_RESPONSE,
                   raised |-> FALSE, requests |-> 1, content |-> n.content]
             ELSE [ret |-> Empty, raised |-> TRUE, requests |-> 2,
                   content |-> n.content]

\* lines 30-60: the body of the try block
CallBody(p, svc) ==
    LET n == Normalize(p)
    IN  IF n.raised
        THEN [ret |-> Empty, raised |-> TRUE, requests |-> 0,
              content |-> Empty]
        ELSE IF svc.kind = "answer"
             THEN [ret |-> IF svc.text # Empty THEN svc.text ELSE NO_RESPONSE,
                   raised |-> FALSE, requests |-> 1, content |-> n.content]
             ELSE [ret |-> Empty, raised |-> TRUE, requests |-> 1,
                   content |-> n.content]

\* the handler catching only what generate_content raises
CallOutcome_TransportOnly(p, svc) ==
    LET body == CallBody(p, svc)
    IN  IF body.raised /\ body.requests = 1
        THEN [ret |-> APOLOGY, raised |-> FALSE, requests |-> body.requests,
              content |-> body.content]
        ELSE body

\* lines 29-65: the value call returns (or the raise that escapes it) and
\* the requests it issued
CallOutcome(p, svc) ==
    LET body == CallBody(p, svc)
    IN  IF body.raised
        THEN [ret |-> APOLOGY, raised |-> FALSE, requests |-> body.requests,
              content |-> body.content]
        ELSE body

----------------------------------------------------------------------------
(* workflow.py 50-84: _get_initial_translation *)

\* lang_mapping, lines 57-61
lang_mapping == {"en", "fr", "es", "de", "it", "pt", "ru", "zh", "ja", "ko", "ar", "hi"}

DEFAULT_LANG == "fr"

\* The language codes of the facebook/m2m100_418M tokenizer (line 11, 32):
\* the twelve of lang_mapping and 88 more, of which "nl" and "sv" stand here.
TokenizerLangs == lang_mapping \cup {"nl", "sv"}

TRANSLATION_FAILED == "Translation failed: "

NoBos == "none"

\* What the model does in one draft: generate raises, or it returns a
\* sequence that decodes to a text.  (The tokenizer raises KeyError on a
\* source language it does not have, see _get_initial_translation.)
Decoded(t) == [kind |-> "decoded", text |-> t, error |-> Empty]
GenerateError(e) == [kind |-> "generate_error", text |-> Empty, error |-> e]

\* str(KeyError(lang))
KeyErrorText(lang) == <<"KeyError", lang>>

\* the lookup always giving the default
mapped_target_AlwaysDefault(tgt) == DEFAULT_LANG

\* line 63: lang_mapping.get(target_lang, 'fr')
mapped_target(tgt) == IF tgt \in lang_mapping THEN tgt ELSE DEFAULT_LANG

\* lines 65-69: the forced first token, and whether the warning is printed;
\* get_lang_id raises KeyError for a code the tokenizer does not have.
ForcedBos(tgt) ==
    LET mapped == mapped_target(tgt)
    IN  IF mapped \in TokenizerLangs
        THEN [raised |-> FALSE, bos |-> mapped, warned |-> FALSE, error |-> Empty]
        ELSE IF DEFAULT_LANG \in TokenizerLangs
             THEN [raised |-> FALSE, bos |-> DEFAULT_LANG, warned |-> TRUE, error |-> Empty]
             ELSE [raised |-> TRUE, bos |-> NoBos, warned |-> FALSE,
                   error |-> KeyErrorText(DEFAULT_LANG)]

\* the draft without the assignment of line 53: the tokenizer keeps the
\* src_lang it was constructed with
_get_initial_translation_SrcLangKept(txt, src, tgt, env) ==
    LET failed(e, bos, w) ==
            [translation |-> <<TRANSLATION_FAILED>> \o e, generated |-> FALSE,
             forced_bos |-> bos, warned |-> w, src_lang |-> "en",
             error |-> <<e>>]
        fb == ForcedBos(tgt)
    IN  IF src \notin TokenizerLangs THEN failed(KeyErrorText(src), NoBos, FALSE)
        ELSE IF fb.raised THEN failed(fb.error, NoBos, FALSE)
        ELSE IF env.kind = "generate_error" THEN failed(env.error, fb.bos, fb.warned)
        ELSE [translation |-> env.text, generated |-> TRUE,
              forced_bos |-> fb.bos, warned |-> fb.warned, src_lang |-> "en",
              error |-> << >>]

\* the handler of lines 82-84 returning the prefix without str(e)
_get_initial_translation_NoText(txt, src, tgt, env) ==
    LET failed(e, bos, w) ==
            [translation |-> <<TRANSLATION_FAILED>>, generated |-> FALSE,
             forced_bos |-> bos, warned |-> w, src_lang |-> src,
             error |-> <<e>>]
        fb == ForcedBos(tgt)
    IN  IF src \notin TokenizerLangs THEN failed(KeyErrorText(src), NoBos, FALSE)
        ELSE IF fb.raised THEN failed(fb.error, NoBos, FALSE)
        ELSE IF env.kind = "generate_error" THEN failed(env.error, fb.bos, fb.warned)
        ELSE [translation |-> env.text, generated |-> TRUE,
              forced_bos |-> fb.bos, warned |-> fb.warned, src_lang |-> src,
              error |-> << >>]

\* lines 52-84: the returned text, the forced first token handed to
\* generate (NoBos when generate is not reached), the warning, and the
\* tokenizer's src_lang afterwards.
_get_initial_translation(txt, src, tgt, env) ==
    LET failed(e, bos, w) ==
            [translation |-> <<TRANSLATION_FAILED>> \o e, generated |-> FALSE,
             forced_bos |-> bos, warned |-> w, src_lang |-> src,
             error |-> <<e>>]
        fb == ForcedBos(tgt)
    IN  IF src \notin TokenizerLangs THEN failed(KeyErrorText(src), NoBos, FALSE)
        ELSE IF fb.raised THEN failed(fb.error, NoBos, FALSE)
        ELSE IF env.kind = "generate_error" THEN failed(env.error, fb.bos, fb.warned)
        ELSE [translation |-> env.text, generated |-> TRUE,
              forced_bos |-> fb.bos, warned |-> fb.warned, src_lang |-> src,
              error |-> << >>]

----------------------------------------------------------------------------
(* workflow.py 86-223: translate *)

ANALYSIS_FAILED == <<"Multi-agent analysis failed">>
QUALITY_FAILED == "Quality assessment failed: "
CONTEXT_NOT_AVAILABLE == <<"Context analysis not available">>
QUALITY_NOT_AVAILABLE == <<"Quality assessment not available">>

\* Task.output: None until the engine sets it to a TaskOutput
NoOutput == [present |-> FALSE, raw |-> Empty]
TaskOutput(t) == [present |-> TRUE, raw |-> t]

\* the tasks listed before their context tasks
TaskList_RefinementFirst ==
    <<"REFINEMENT", "CONTEXT_ANALYSIS", "QUALITY_ASSESSMENT">>

\* line 176: the tasks of the crew, run in this order (line 177)
TaskList == <<"CONTEXT_ANALYSIS", "REFINEMENT", "QUALITY_ASSESSMENT">>

\* lines 139 and 169: the context= argument of each task
TaskContext(stage) ==
    IF stage = "REFINEMENT" THEN {"CONTEXT_ANALYSIS"}
    ELSE IF stage = "QUALITY_ASSESSMENT" THEN {"CONTEXT_ANALYSIS", "REFINEMENT"}
    ELSE {}

TaskIndex(stage) == CHOOSE i \in DOMAIN TaskList : TaskList[i] = stage

\* where kickoff goes after a task: the next task of the list, or back to
\* translate after the last one
AfterTask(stage) ==
    IF TaskIndex(stage) = Len(TaskList) THEN "PARSE"
    ELSE TaskList[TaskIndex(stage) + 1]

NoOutputs == [stage \in {"CONTEXT_ANALYSIS", "REFINEMENT", "QUALITY_ASSESSMENT"}
                 |-> NoOutput]

\* lines 185-187: hasattr(task, 'output') and task.output
OutputOr(out, default) == IF out.present THEN out.raw ELSE default

\* lines 185-187
CollectOutputs(outs, initial) ==
    [context_analysis |->
         OutputOr(outs["CONTEXT_ANALYSIS"], CONTEXT_NOT_AVAILABLE),
     refined_translation |-> OutputOr(outs["REFINEMENT"], initial),
     quality_assessment |->
         OutputOr(outs["QUALITY_ASSESSMENT"], QUALITY_NOT_AVAILABLE)]

\* the except branch without the exception text
CrewFallback_NoText(e, initial) ==
    [context_analysis |-> ANALYSIS_FAILED,
     refined_translation |-> initial,
     quality_assessment |-> <<QUALITY_FAILED>>]

\* lines 189-194: the except branch
CrewFallback(e, initial) ==
    [context_analysis |-> ANALYSIS_FAILED,
     refined_translation |-> initial,
     quality_assessment |-> <<QUALITY_FAILED>> \o e]

\* the result carrying the language the draft was made for
MakeResult_MappedTarget(txt, src, tgt, initial, ca, refined, score, qa, rec) ==
    [original_text |-> txt, source_lang |-> src, target_lang |-> mapped_target(tgt),
     initial_translation |-> initial, context_analysis |-> ca,
     refined_translation |-> refined, accuracy_score |-> score,
     quality_assessment |-> qa, final_recommendation |-> rec]

\* lines 213-223
MakeResult(txt, src, tgt, initial, ca, refined, score, qa, rec) ==
    [original_text |-> txt, source_lang |-> src, target_lang |-> tgt,
     initial_translation |-> initial, context_analysis |-> ca,
     refined_translation |-> refined, accuracy_score |-> score,
     quality_assessment |-> qa, final_recommendation |-> rec]

NoResult == MakeResult(Empty, "", "", Empty, Empty, Empty, Empty, Empty, Empty)

----------------------------------------------------------------------------
(* The inputs and the collaborators' answers explored *)

Texts == {<<"a">>, <<"b">>}
SourceLangs == {"en", "fr", "xx"}
TargetLangs == {"de", "fr", "xx"}

DraftEnvs == {Decoded(<<"d">>), GenerateError(<<"out of memory">>)}

\* str(e) of what the engine raises; the second holds markers
EngineErrors == {<<"boom">>, <<SCORES, "9", RECOMMENDATION, "r">>}

Stages == {"CONTEXT_ANALYSIS", "REFINEMENT", "QUALITY_ASSESSMENT"}

\* what the generation service answers to the agent of a stage
AgentAnswer(stage) ==
    IF stage = "CONTEXT_ANALYSIS" THEN <<"casual", SP, "greeting">>
    ELSE IF stage = "REFINEMENT" THEN <<"refined">>
    ELSE <<SCORES, SP, "8/10", NL, ASSESSMENT, SP, "fluent", NL,
           RECOMMENDATION, SP, "use", SP, "refined">>

\* what the generation service does with the request of a stage; the
\* transport failure is explored on the last stage, whose text is parsed
Services(stage) ==
    IF stage = "QUALITY_ASSESSMENT"
    THEN {Answer(AgentAnswer(stage)), TransportError}
    ELSE {Answer(AgentAnswer(stage))}

\* the messages the engine hands to call for the agent of a stage
AgentPrompt(stage) ==
    ListPrompt(<<DictMsg(StrField(<<"system", SP, "role">>), NoField),
                 DictMsg(StrField(<<"task", SP, stage>>), NoField)>>)

\* the Task.output the engine sets when the task of a stage has run: the
\* agent's answer through call, or an output whose text is empty
TaskOutputs(stage) ==
    {TaskOutput(CallOutcome(AgentPrompt(stage), svc).ret) : svc \in Services(stage)}
        \cup {TaskOutput(Empty)}

----------------------------------------------------------------------------
(* State after construction, lines 28-48 *)

Init ==
    /\ pc = "IDLE"
    /\ text = Empty
    /\ source_lang = ""
    /\ target_lang = ""
    /\ tokenizer_src_lang = "en"
    /\ forced_bos = NoBos
    /\ warned = FALSE
    /\ initial_translation = Empty
    /\ task_output = NoOutputs
    /\ draft_error = << >>
    /\ crew_error = << >>
    /\ context_analysis = Empty
    /\ refined_translation = Empty
    /\ quality_assessment = Empty
    /\ accuracy_score = Empty
    /\ final_recommendation = Empty
    /\ result = NoResult
    /\ batch_pc = "none"
    /\ batch_texts = << >>
    /\ batch_i = 0
    /\ results = << >>
    /\ prompt = OtherPrompt
    /\ content = Empty
    /\ call_pc = "none"
    /\ service = NoService
    /\ call_ret = Empty
    /\ requests = 0

locals == <<initial_translation, task_output, context_analysis,
            refined_translation, quality_assessment, accuracy_score,
            final_recommendation>>

\* translate is left (return or raise): its local variables are gone, and
\* so is what was observed of its draft
LeaveFrame ==
    /\ forced_bos' = NoBos
    /\ warned' = FALSE
    /\ initial_translation' = Empty
    /\ task_output' = NoOutputs
    /\ context_analysis' = Empty
    /\ refined_translation' = Empty
    /\ quality_assessment' = Empty
    /\ accuracy_score' = Empty
    /\ final_recommendation' = Empty

\* lines 86-92: a translate call starts
Enter(t, s, g) ==
    /\ pc' = "DRAFTING"
    /\ text' = t
    /\ source_lang' = s
    /\ target_lang' = g
    /\ forced_bos' = NoBos
    /\ warned' = FALSE
    /\ initial_translation' = Empty
    /\ task_output' = NoOutputs
    /\ draft_error' = << >>
    /\ crew_error' = << >>
    /\ context_analysis' = Empty
    /\ refined_translation' = Empty
    /\ quality_assessment' = Empty
    /\ accuracy_score' = Empty
    /\ final_recommendation' = Empty
    /\ result' = NoResult
    /\ UNCHANGED tokenizer_src_lang

\* no translate or batch_translate call is running or waiting to be read
Quiet == pc = "IDLE" /\ batch_pc = "none"

\* main.py 71-90, 107-123: the adapter has shown what translate or
\* batch_translate returned, or has caught what it raised, and is back in
\* its loop
AdapterLoop ==
    /\ \/ batch_pc = "none" /\ pc \in {"DONE", "RAISED"}
       \/ batch_pc \in {"returned", "raised"}
    /\ pc' = "IDLE"
    /\ batch_pc' = "none"
    /\ text' = Empty
    /\ source_lang' = ""
    /\ target_lang' = ""
    /\ result' = NoResult
    /\ batch_texts' = << >>
    /\ batch_i' = 0
    /\ results' = << >>
    /\ draft_error' = << >>
    /\ crew_error' = << >>
    /\ UNCHANGED <<tokenizer_src_lang, forced_bos, warned>>
    /\ UNCHANGED locals
    /\ UNCHANGED callVars

\* translate called by a presentation adapter
translate ==
    /\ Quiet
    /\ \E t \in Texts, s \in SourceLangs, g \in TargetLangs : Enter(t, s, g)
    /\ batch_pc' = "none"
    /\ batch_texts' = << >>
    /\ batch_i' = 0
    /\ results' = << >>
    /\ UNCHANGED callVars

\* line 93
Draft ==
    /\ pc = "DRAFTING"
    /\ \E env \in DraftEnvs :
         LET d == _get_initial_translation(text, source_lang, target_lang, env)
         IN  /\ initial_translation' = d.translation
             /\ forced_bos' = d.forced_bos
             /\ warned' = d.warned
             /\ tokenizer_src_lang' = d.src_lang
             /\ draft_error' = d.error
    /\ pc' = "BUILDING"
    /\ UNCHANGED <<text, source_lang, target_lang, task_output, crew_error,
                   context_analysis, refined_translation, quality_assessment,
                   accuracy_score, final_recommendation, result, batch_pc,
                   batch_texts, batch_i, results>>
    /\ UNCHANGED callVars

\* lines 97-170: the three Task objects are built
BuildTasks ==
    /\ pc = "BUILDING"
    /\ pc' = "CREW"
    /\ task_output' = NoOutputs
    /\ UNCHANGED <<text, source_lang, target_lang, tokenizer_src_lang,
                   forced_bos, warned, initial_translation, draft_error, crew_error,
                   context_analysis,
                   refined_translation, quality_assessment, accuracy_score,
                   final_recommendation, result, batch_pc, batch_texts, batch_i, results>>
    /\ UNCHANGED callVars

\* lines 97-170: a Task constructor raises; nothing encloses these lines,
\* so the exception leaves translate, and batch_translate (line 230) too
BuildTasksRaise ==
    /\ pc = "BUILDING"
    /\ pc' = "RAISED"
    /\ batch_pc' = IF batch_pc = "running" THEN "raised" ELSE batch_pc
    /\ LeaveFrame
    /\ UNCHANGED <<text, source_lang, target_lang, tokenizer_src_lang,
                   draft_error, crew_error, result, batch_texts, batch_i, results>>
    /\ UNCHANGED callVars

\* lines 174-179: Crew(...) is built
CreateCrew ==
    /\ pc = "CREW"
    /\ pc' = TaskList[1]
    /\ UNCHANGED <<text, source_lang, target_lang, tokenizer_src_lang,
                   forced_bos, warned, initial_translation, task_output,
                   draft_error, crew_error,
                   context_analysis, refined_translation, quality_assessment,
                   accuracy_score, final_recommendation, result, batch_pc,
                   batch_texts, batch_i, results>>
    /\ UNCHANGED callVars

engineFrame == <<text, source_lang, target_lang, tokenizer_src_lang,
                 forced_bos, warned, initial_translation, draft_error,
                 accuracy_score,
                 final_recommendation, result, batch_pc, batch_texts, batch_i, results>>

\* lines 182-187: kickoff runs one task of the list and sets its output;
\* after the last task kickoff returns and the outputs are read off the
\* tasks
RunTask(stage) ==
    /\ pc = stage
    /\ \E out \in TaskOutputs(stage) :
         /\ task_output' = [task_output EXCEPT ![stage] = out]
         /\ IF AfterTask(stage) = "PARSE"
            THEN LET c == CollectOutputs(task_output', initial_translation)
                 IN  /\ context_analysis' = c.context_analysis
                     /\ refined_translation' = c.refined_translation
                     /\ quality_assessment' = c.quality_assessment
            ELSE UNCHANGED <<context_analysis, refined_translation,
                             quality_assessment>>
    /\ pc' = AfterTask(stage)
    /\ UNCHANGED <<draft_error, crew_error>>
    /\ UNCHANGED engineFrame
    /\ UNCHANGED callVars

\* line 182: kickoff runs context_task
RunContextTask == RunTask("CONTEXT_ANALYSIS")

\* line 182: kickoff runs refinement_task
RunRefinementTask == RunTask("REFINEMENT")

\* line 182: kickoff runs quality_task
RunQualityTask == RunTask("QUALITY_ASSESSMENT")

\* lines 174-194: Crew(...) or kickoff raises, the except branch runs
CrewRaise ==
    /\ pc \in {"CREW"} \cup Stages
    /\ \E e \in EngineErrors :
         LET f == CrewFallback(e, initial_translation)
         IN  /\ crew_error' = <<e>>
             /\ context_analysis' = f.context_analysis
             /\ refined_translation' = f.refined_translation
             /\ quality_assessment' = f.quality_assessment
    /\ pc' = "PARSE"
    /\ UNCHANGED task_output
    /\ UNCHANGED engineFrame
    /\ UNCHANGED callVars

\* lines 196-223: the markers are parsed and the result is returned
ExtractAndReturn ==
    /\ pc = "PARSE"
    /\ LET score == ExtractAccuracyScore(quality_assessment)
           rec == ExtractFinalRecommendation(quality_assessment, refined_translation)
       IN  result' = MakeResult(text, source_lang, target_lang,
                                initial_translation, context_analysis,
                                refined_translation, score, quality_assessment,
                                rec)
    /\ pc' = "DONE"
    /\ LeaveFrame
    /\ UNCHANGED <<text, source_lang, target_lang, tokenizer_src_lang,
                   draft_error, crew_error, batch_pc, batch_texts, batch_i, results>>
    /\ UNCHANGED callVars

----------------------------------------------------------------------------
(* workflow.py 225-232: batch_translate *)

BatchInputs == SeqsUpTo(Texts, MaxBatch)

\* lines 225-227
batch_translate ==
    /\ Quiet
    /\ \E ts \in BatchInputs, s \in SourceLangs, g \in TargetLangs :
         /\ batch_texts' = ts
         /\ source_lang' = s
         /\ target_lang' = g
    /\ batch_pc' = "running"
    /\ batch_i' = 0
    /\ results' = << >>
    /\ pc' = "IDLE"
    /\ text' = Empty
    /\ result' = NoResult
    /\ UNCHANGED <<tokenizer_src_lang, forced_bos, warned, draft_error, crew_error>>
    /\ UNCHANGED locals
    /\ UNCHANGED callVars

\* lines 228-230: the loop takes the next text and calls translate
BatchItem ==
    /\ batch_pc = "running"
    /\ pc = "IDLE"
    /\ batch_i < Len(batch_texts)
    /\ Enter(batch_texts[batch_i + 1], source_lang, target_lang)
    /\ batch_i' = batch_i + 1
    /\ UNCHANGED <<batch_pc, batch_texts, results>>
    /\ UNCHANGED callVars

\* the result put in front of the list
BatchAppend_Prepend ==
    /\ batch_pc = "running"
    /\ pc = "DONE"
    /\ results' = <<result>> \o results
    /\ pc' = "IDLE"
    /\ draft_error' = << >>
    /\ crew_error' = << >>
    /\ UNCHANGED <<text, source_lang, target_lang, tokenizer_src_lang,
                   forced_bos, warned, result, batch_pc, batch_texts, batch_i>>
    /\ UNCHANGED locals
    /\ UNCHANGED callVars

\* lines 230-231: translate returned, its result is appended
BatchAppend ==
    /\ batch_pc = "running"
    /\ pc = "DONE"
    /\ results' = Append(results, result)
    /\ pc' = "IDLE"
    /\ draft_error' = << >>
    /\ crew_error' = << >>
    /\ UNCHANGED <<text, source_lang, target_lang, tokenizer_src_lang,
                   forced_bos, warned, result, batch_pc, batch_texts, batch_i>>
    /\ UNCHANGED locals
    /\ UNCHANGED callVars

\* line 232
BatchReturn ==
    /\ batch_pc = "running"
    /\ pc = "IDLE"
    /\ batch_i = Len(batch_texts)
    /\ batch_pc' = "returned"
    /\ UNCHANGED <<pc, text, source_lang, target_lang, tokenizer_src_lang,
                   forced_bos, warned, draft_error, crew_error, result, batch_texts, batch_i, results>>
    /\ UNCHANGED locals
    /\ UNCHANGED callVars

Next ==
    \/ translate
    \/ Draft
    \/ BuildTasks
    \/ BuildTasksRaise
    \/ CreateCrew
    \/ RunContextTask
    \/ RunRefinementTask
    \/ RunQualityTask
    \/ CrewRaise
    \/ ExtractAndReturn
    \/ batch_translate
    \/ BatchItem
    \/ BatchAppend
    \/ BatchReturn
    \/ AdapterLoop

Spec == Init /\ [][Next]_vars

----------------------------------------------------------------------------
(* Lines 196-223 on every quality-assessment text up to MaxLen: translate   *)
(* stands at line 196 after a kickoff that left the text as the last        *)
(* task's output.                                                           *)

ParseAlphabet == {SCORES, ASSESSMENT, RECOMMENDATION, SP, "x"}

AssessmentTexts == SeqsUpTo(ParseAlphabet, MaxLen)

RefinedTexts == {<<"refined">>, <<"d">>}

InitParse ==
    /\ pc = "PARSE"
    /\ text = <<"a">>
    /\ source_lang = "en"
    /\ target_lang = "fr"
    /\ tokenizer_src_lang = "en"
    /\ forced_bos = "fr"
    /\ warned = FALSE
    /\ initial_translation = <<"d">>
    /\ quality_assessment \in AssessmentTexts
    /\ refined_translation \in RefinedTexts
    /\ context_analysis = AgentAnswer("CONTEXT_ANALYSIS")
    /\ task_output =
           [stage \in Stages |->
               IF stage = "CONTEXT_ANALYSIS" THEN TaskOutput(context_analysis)
               ELSE IF stage = "REFINEMENT" THEN TaskOutput(refined_translation)
               ELSE TaskOutput(quality_assessment)]
    /\ draft_error = << >>
    /\ crew_error = << >>
    /\ accuracy_score = Empty
    /\ final_recommendation = Empty
    /\ result = NoResult
    /\ batch_pc = "none"
    /\ batch_texts = << >>
    /\ batch_i = 0
    /\ results = << >>
    /\ prompt = OtherPrompt
    /\ content = Empty
    /\ call_pc = "none"
    /\ service = NoService
    /\ call_ret = Empty
    /\ requests = 0

NextParse == ExtractAndReturn

SpecParse == InitParse /\ [][NextParse]_vars

----------------------------------------------------------------------------
(* GeminiLLM.call on every shape of prompt *)

CallTexts == {<<"p">>, <<SP, "q", SP>>}

FieldValues == {NoField, ObjField} \cup {StrField(t) : t \in CallTexts}

Msgs == {DictMsg(c, t) : c \in FieldValues, t \in FieldValues}
            \cup {StrMsg(t) : t \in CallTexts} \cup {OtherMsg}

Prompts ==
    {StrPrompt(t) : t \in CallTexts}
        \cup {ListPrompt(ms) : ms \in SeqsUpTo(Msgs, MaxMsgs)}
        \cup {DictPrompt(DictMsg(c, t)) : c \in FieldValues, t \in FieldValues}
        \cup {OtherPrompt}

CallServices == {Answer(<<"response">>), Answer(Empty), TransportError, TextError}

InitCall ==
    /\ pc = "IDLE"
    /\ text = Empty
    /\ source_lang = ""
    /\ target_lang = ""
    /\ tokenizer_src_lang = "en"
    /\ forced_bos = NoBos
    /\ warned = FALSE
    /\ initial_translation = Empty
    /\ task_output = NoOutputs
    /\ draft_error = << >>
    /\ crew_error = << >>
    /\ context_analysis = Empty
    /\ refined_translation = Empty
    /\ quality_assessment = Empty
    /\ accuracy_score = Empty
    /\ final_recommendation = Empty
    /\ result = NoResult
    /\ batch_pc = "none"
    /\ batch_texts = << >>
    /\ batch_i = 0
    /\ results = << >>
    /\ prompt \in Prompts
    /\ content = Empty
    /\ call_pc = "called"
    /\ service = NoService
    /\ call_ret = Empty
    /\ requests = 0

\* agents.py 27-65: one invocation of call, start to end
call ==
    /\ call_pc = "called"
    /\ \E svc \in CallServices :
         LET o == CallOutcome(prompt, svc)
         IN  /\ service' = svc
             /\ call_pc' = IF o.raised THEN "raised" ELSE "returned"
             /\ call_ret' = o.ret
             /\ requests' = o.requests
             /\ content' = o.content
    /\ UNCHANGED prompt
    /\ UNCHANGED workflowVars

NextCall == call

SpecCall == InitCall /\ [][NextCall]_vars

----------------------------------------------------------------------------
(* Properties *)

\* the draft returned the failure string of line 84
DraftFailed(t) == t # Empty /\ t[1] = TRANSLATION_FAILED

\* C1: when Crew(...) or kickoff raised, translate does not raise, and the
\* result it returns has refined_translation equal to initial_translation,
\* context_analysis "Multi-agent analysis failed" and quality_assessment
\* "Quality assessment failed: " followed by the exception text.
C1_EngineFailureFallback ==
    crew_error # << >> =>
        /\ pc \in {"PARSE", "DONE"}
        /\ pc = "DONE" =>
             /\ result.refined_translation = result.initial_translation
             /\ result.context_analysis = ANALYSIS_FAILED
             /\ result.quality_assessment = <<QUALITY_FAILED>> \o crew_error[1]

C1_Witness ==
    /\ pc = "DONE"
    /\ crew_error = << <<"boom">> >>
    /\ result.initial_translation = <<"d">>
    /\ result.refined_translation = <<"d">>
    /\ result.quality_assessment = <<QUALITY_FAILED, "boom">>

\* "SCORES:" occurs in the text and "ASSESSMENT:" occurs after it
ScoresThenAssessment(qa) ==
    \E i, j \in 1..Len(qa) : i < j /\ qa[i] = SCORES /\ qa[j] = ASSESSMENT

\* the text between the first "SCORES:" and the next "ASSESSMENT:"
BetweenMarkers(qa) ==
    LET i == FirstIndex(qa, SCORES)
        j == CHOOSE k \in (i+1)..Len(qa) :
                 qa[k] = ASSESSMENT /\ \A l \in (i+1)..(k-1) : qa[l] # ASSESSMENT
    IN  SubSeq(qa, i+1, j-1)

\* C2: accuracy_score is the trimmed text between "SCORES:" and the later
\* "ASSESSMENT:" when the assessment holds both in that order, and "N/A" in
\* every other case.
C2_AccuracyScore ==
    pc = "DONE" =>
        LET qa == result.quality_assessment
        IN  result.accuracy_score =
                IF ScoresThenAssessment(qa) THEN Strip(BetweenMarkers(qa)) ELSE NA

\* the text after the first occurrence of the marker, to the end
SuffixAfter(qa, m) == SubSeq(qa, FirstIndex(qa, m) + 1, Len(qa))

\* C3: final_recommendation is the trimmed rest of the assessment after
\* "RECOMMENDATION:", to the end of the text, when the marker occurs, and
\* refined_translation when it does not.
C3_FinalRecommendation ==
    pc = "DONE" =>
        LET qa == result.quality_assessment
        IN  result.final_recommendation =
                IF Contains(qa, RECOMMENDATION)
                THEN Strip(SuffixAfter(qa, RECOMMENDATION))
                ELSE result.refined_translation

\* C4: no exception leaves translate, wherever in steps 2-3 it is raised.
C4_TranslateNeverRaises == pc # "RAISED"

\* C5: what batch_translate returns has one result per text, the i-th made
\* from the i-th text and the languages of the call.
C5_BatchOrder ==
    /\ batch_pc \in {"running", "returned"} =>
         /\ Len(results) <= Len(batch_texts)
         /\ \A i \in 1..Len(results) :
              /\ results[i].original_text = batch_texts[i]
              /\ results[i].source_lang = source_lang
              /\ results[i].target_lang = target_lang
    /\ batch_pc = "returned" => Len(results) = Len(batch_texts)

C5_Witness ==
    /\ batch_pc = "returned"
    /\ batch_texts = << <<"a">>, <<"b">> >>
    /\ Len(results) = 2
    /\ results[1].original_text = <<"a">>
    /\ results[2].original_text = <<"b">>
    /\ results[1].context_analysis = ANALYSIS_FAILED
    /\ results[2].context_analysis # ANALYSIS_FAILED

\* C6: a batch_translate call that has ended has a result for every text,
\* whatever failed inside an item's translate call.
C6_BatchCompletes ==
    batch_pc \in {"returned", "raised"} => Len(results) = Len(batch_texts)

\* C7: the result's original_text, source_lang and target_lang are the
\* arguments of the call.
C7_ArgumentsPassThrough ==
    pc = "DONE" =>
        /\ result.original_text = text
        /\ result.source_lang = source_lang
        /\ result.target_lang = target_lang

C7_Witness ==
    /\ pc = "DONE"
    /\ target_lang = "xx"
    /\ result.target_lang = "xx"
    /\ result.source_lang = "en"
    /\ result.original_text = <<"b">>
    /\ ~DraftFailed(result.initial_translation)

\* C8: call never raises, and returns the apology whenever normalising the
\* prompt, the request or reading the response raised.
C8_CallNeverRaises ==
    /\ call_pc # "raised"
    /\ (call_pc = "returned" /\ (Normalize(prompt).raised \/ service.kind # "answer"))
           => call_ret = APOLOGY

C8_Witness ==
    /\ call_pc = "returned"
    /\ prompt.kind = "list"
    /\ Normalize(prompt).raised
    /\ call_ret = APOLOGY

\* C9: a draft for a target_lang outside lang_mapping forces "fr" and
\* prints the warning.
C9_UnsupportedTargetWarns ==
    (pc = "BUILDING" /\ target_lang \notin lang_mapping /\ forced_bos # NoBos)
        => (forced_bos = DEFAULT_LANG /\ warned)

\* C10: a draft that produced a translation for a target_lang of
\* lang_mapping forced the first token to that target_lang.
C10_ForcedBosIsTarget ==
    (pc = "BUILDING" /\ target_lang \in lang_mapping
                     /\ ~DraftFailed(initial_translation))
        => forced_bos = target_lang

C10_Witness ==
    /\ pc = "BUILDING"
    /\ target_lang = "de"
    /\ initial_translation = <<"d">>
    /\ forced_bos = "de"

\* C11: an exception raised while drafting is caught in the draft and
\* becomes "Translation failed: " followed by the exception text; translate
\* keeps that text as initial_translation and returns it unchanged in the
\* result; when the engine did not raise, the three tasks have run and the
\* result carries their outputs.
C11_DraftFailureIsOrdinaryText ==
    draft_error # << >> =>
        /\ pc \in {"BUILDING", "CREW", "CONTEXT_ANALYSIS", "REFINEMENT",
                   "QUALITY_ASSESSMENT", "PARSE"}
               => initial_translation = <<TRANSLATION_FAILED>> \o draft_error[1]
        /\ pc = "DONE"
               => result.initial_translation
                      = <<TRANSLATION_FAILED>> \o draft_error[1]
        /\ (pc = "PARSE" /\ crew_error = << >>)
               => \A s \in Stages : task_output[s] \in TaskOutputs(s)
        /\ (pc = "DONE" /\ crew_error = << >>)
               => /\ TaskOutput(result.context_analysis)
                      \in TaskOutputs("CONTEXT_ANALYSIS")
                  /\ TaskOutput(result.refined_translation)
                      \in TaskOutputs("REFINEMENT")
                  /\ TaskOutput(result.quality_assessment)
                      \in TaskOutputs("QUALITY_ASSESSMENT")

C11_Witness ==
    /\ pc = "DONE"
    /\ draft_error = << <<"out of memory">> >>
    /\ crew_error = << >>
    /\ result.initial_translation = <<TRANSLATION_FAILED, "out of memory">>
    /\ result.context_analysis = AgentAnswer("CONTEXT_ANALYSIS")
    /\ result.refined_translation = AgentAnswer("REFINEMENT")

\* the stages of one translate call, in the order of the specification
StageOrder ==
    <<"DRAFTING", "CONTEXT_ANALYSIS", "REFINEMENT", "QUALITY_ASSESSMENT",
      "DONE">>

\* the stage a position of translate belongs to: task and crew construction
\* open the context-analysis stage, parsing the markers belongs to DONE
StageOf(p) ==
    CASE p = "DRAFTING" -> "DRAFTING"
      [] p \in {"BUILDING", "CREW", "CONTEXT_ANALYSIS"} -> "CONTEXT_ANALYSIS"
      [] p = "REFINEMENT" -> "REFINEMENT"
      [] p = "QUALITY_ASSESSMENT" -> "QUALITY_ASSESSMENT"
      [] p \in {"PARSE", "DONE"} -> "DONE"
      [] OTHER -> "NONE"

StageRank(st) == CHOOSE i \in DOMAIN StageOrder : StageOrder[i] = st

\* C12: a call that is in one of the stages stays in it, moves to the next
\* stage of the order, or moves to DONE; it never leaves the stages without
\* reaching DONE and never goes back to an earlier stage.
C12_StagesInOrder ==
    [][StageOf(pc) \in {"DRAFTING", "CONTEXT_ANALYSIS", "REFINEMENT",
                        "QUALITY_ASSESSMENT"}
          => /\ StageOf(pc') # "NONE"
             /\ \/ StageOf(pc') = StageOf(pc)
                \/ StageOf(pc') = "DONE"
                \/ StageRank(StageOf(pc')) = StageRank(StageOf(pc)) + 1]_vars

\* C13: while a task is about to run, every task of its context has an
\* output and the task itself has none yet; a task has an output only once
\* the engine has moved past it in the task list.
C13_ContextBeforeTask ==
    \A s \in Stages :
        /\ pc = s => /\ \A c \in TaskContext(s) : task_output[c].present
                     /\ ~task_output[s].present
        /\ task_output[s].present =>
               /\ pc \in Stages \cup {"PARSE"}
               /\ pc \in Stages => TaskIndex(s) < TaskIndex(pc)

C13_Witness ==
    /\ pc = "QUALITY_ASSESSMENT"
    /\ task_output["CONTEXT_ANALYSIS"] = TaskOutput(AgentAnswer("CONTEXT_ANALYSIS"))
    /\ task_output["REFINEMENT"] = TaskOutput(AgentAnswer("REFINEMENT"))
    /\ ~task_output["QUALITY_ASSESSMENT"].present

\* C14 as stated: whatever calls were made, the tokenizer is in the state
\* construction left it in.
C14_TokenizerAsConstructed ==
    pc \in {"IDLE", "DONE", "RAISED"} => tokenizer_src_lang = "en"

\* C14: every draft first sets the tokenizer's src_lang to the source_lang
\* of its own call, so after the draft the tokenizer carries this call's
\* source_lang whatever earlier calls left there, and the draft is the one
\* _get_initial_translation gives for this call's arguments alone.
C14_TokenizerSetPerCall ==
    pc \in {"BUILDING", "CREW", "PARSE"} \cup Stages =>
        /\ tokenizer_src_lang = source_lang
        /\ \E env \in DraftEnvs :
              LET d == _get_initial_translation(text, source_lang, target_lang, env)
              IN  /\ initial_translation = d.translation
                  /\ forced_bos = d.forced_bos
                  /\ warned = d.warned

C14_Witness ==
    /\ pc = "BUILDING"
    /\ source_lang = "fr"
    /\ tokenizer_src_lang = "fr"
    /\ batch_pc = "running"
    /\ Len(results) = 1
    /\ initial_translation = <<"d">>

\* a message-like record: a dict whose content, or whose text when it has
\* no content, is a string
MessageLike(m) ==
    /\ m.kind = "dict"
    /\ IF m.content.has THEN m.content.isstr
       ELSE m.textf.has /\ m.textf.isstr

RecordText(m) == IF m.content.has THEN m.content.val ELSE m.textf.val

\* the texts of the records, in order, with a newline between neighbours
RECURSIVE NewlineJoined(_)
NewlineJoined(ms) ==
    IF ms = << >> THEN Empty
    ELSE IF Len(ms) = 1 THEN RecordText(ms[1])
    ELSE RecordText(Head(ms)) \o <<NL>> \o NewlineJoined(Tail(ms))

\* C15: for a list of message-like records, the text handed to the
\* generation service is the records' content (or text) in order, joined by
\* newlines, with trailing whitespace removed and nothing else changed.
C15_ListContent ==
    (/\ call_pc = "returned"
     /\ prompt.kind = "list"
     /\ \A i \in DOMAIN prompt.msgs : MessageLike(prompt.msgs[i]))
        => content = RStrip(NewlineJoined(prompt.msgs))

\* C16 as stated: a call that has returned issued exactly one request.
C16_ExactlyOneRequest == call_pc = "returned" => requests = 1

\* C16: a call that has returned issued one request when the prompt could
\* be turned into a text, whatever the service did with it, and none when
\* building the text raised; it never issued more than one.
C16_OneRequestUnlessNormalizeRaises ==
    call_pc = "returned" =>
        requests = (IF Normalize(prompt).raised THEN 0 ELSE 1)

C16_Witness ==
    /\ call_pc = "returned"
    /\ prompt = ListPrompt(<<DictMsg(StrField(<<"p">>), NoField),
                             DictMsg(ObjField, NoField)>>)
    /\ requests = 0
    /\ content = Empty

\* C17: a result returned after the engine raised has accuracy_score "N/A"
\* and final_recommendation equal to initial_translation, whatever the
\* exception text was.
C17_FallbackScoreAndRecommendation ==
    (pc = "DONE" /\ crew_error # << >>) =>
        /\ result.accuracy_score = NA
        /\ result.final_recommendation = result.initial_translation

\* C18: in a result returned after the engine finished without raising, no
\* field that comes from a task output is empty, and refined_translation is
\* a non-empty text or exactly initial_translation.
C18_NoEmptyField ==
    (pc = "DONE" /\ crew_error = << >>) =>
        /\ result.context_analysis # Empty
        /\ result.quality_assessment # Empty
        /\ \/ result.refined_translation # Empty
           \/ result.refined_translation = result.initial_translation

====
